---- MODULE Spec2Model ----
(***************************************************************************)
(* arplogger: the ARP binding logger (package arp: Logger, NewLogger,      *)
(* Logger.Log) as a state machine.                                         *)
(*                                                                         *)
(* A Logger holds a mode (bit flags), a log sink (an io.MultiWriter over   *)
(* the log file and/or stdout) and the binding table arptable, a map from  *)
(* an IPv4 address to a hardware address.  Log processes one decoded ARP   *)
(* announcement: it validates the size fields, optionally dumps the        *)
(* packet, then classifies the sender pair against the table and updates   *)
(* the table.                                                              *)
(*                                                                         *)
(* Addresses are values: the capture loop hands Log a freshly decoded      *)
(* packet each time, so the slice the table keeps is never overwritten.    *)
(***************************************************************************)
EXTENDS Integers, Sequences, FiniteSets, TLC

(***************************************************************************)
(* Bounds of the model.                                                    *)
(***************************************************************************)
\* IPv4 sender addresses are 1..NumIPs
NumIPs == 3
\* hardware addresses are 1..NumHWs
NumHWs == 2
\* NewLogger's integer arguments dest and mode range over 0..MaxArg
MaxArg == 4
\* the capture channel holds at most MaxQueue packets
MaxQueue == 2
\* a run whose packets are recorded receives at most MaxPackets packets
MaxPackets == 3

(***************************************************************************)
(* Program constants.                                                      *)
(***************************************************************************)
Print2Log == 1
Print2Console == 2
LogAllPackets == 1
LogNewPairs == 2
\* the size fields Log accepts
HwLen == 6
ProtLen == 4

IPs == 1..NumIPs
HWs == 1..NumHWs
Args == 0..MaxArg

\* The decoded announcements handed to Log: the two size fields and the
\* sender pair.  The decoder cuts the addresses out of the frame by the size
\* fields, so a well-formed announcement (sizes 6 and 4) carries a hardware
\* address of HWs and an IPv4 address of IPs, and an address of another
\* size (5 for the hardware address, 16 for the protocol address stand for
\* every other size) is none of them: -1 stands for it.  The operation and
\* the destination pair are only rendered by prettyPrint; every announcement
\* here is a request for one fixed destination.
Packets ==
    {p \in [hwSize : {6, 5}, protSize : {4, 16},
            ip : IPs \cup {-1}, hw : HWs \cup {-1}] :
        /\ (p.hwSize = 6) <=> (p.hw \in HWs)
        /\ (p.protSize = 4) <=> (p.ip \in IPs)}

NoPacket == [hwSize |-> 0, protSize |-> 0, ip |-> 0, hw |-> 0]

\* the nil hardware address a map read of a missing key returns, and the
\* "no key" outcome of a scan that ends without a match
Nil == 0

(***************************************************************************)
(* Bit flags: x&flag == flag, as NewLogger and Log test them.              *)
(***************************************************************************)
RECURSIVE BitAnd(_, _)
BitAnd(a, b) ==
    IF a = 0 \/ b = 0 THEN 0
    ELSE 2 * BitAnd(a \div 2, b \div 2) + ((a % 2) * (b % 2))

HasFlag(x, flag) == BitAnd(x, flag) = flag

(***************************************************************************)
(* The binding table, a Go map.                                            *)
(***************************************************************************)
\* make(map[ipv4]net.HardwareAddr): the map with no key
EmptyTable == [i \in {} |-> Nil]

\* l.arptable[ip] as a value: nil for a missing key
Get(table, ip) == IF ip \in DOMAIN table THEN table[ip] ELSE Nil

\* l.arptable[ip] = hw
Set(table, ip, hw) ==
    [i \in (DOMAIN table) \cup {ip} |-> IF i = ip THEN hw ELSE table[i]]

\* Faulty variant of Delete: the entry stays.
Delete_Forgotten(table, k) == table

\* delete(l.arptable, k)
Delete(table, k) == [i \in (DOMAIN table) \ {k} |-> table[i]]

\* The keys a range over the table can stop at: the loop breaks at the first
\* entry whose value equals hw, and Go's map iteration order is unspecified,
\* so any key holding hw can be the first; Nil when no entry holds hw.
ScanHits(table, hw) ==
    LET holders == {k \in DOMAIN table : table[k] = hw}
    IN  IF holders = {} THEN {Nil} ELSE holders

(***************************************************************************)
(* The lines Log prints.                                                   *)
(***************************************************************************)
WarningLine(field, size) == [tag |-> "WARNING", field |-> field, size |-> size]

ChangeLine(prevIp, prevHw, newIp, newHw) ==
    [tag |-> "CHANGE MAPPING", prevIp |-> prevIp, prevHw |-> prevHw,
     ip |-> newIp, hw |-> newHw]

NewLine(ip, hw) == [tag |-> "NEW MAPPING", ip |-> ip, hw |-> hw]

\* the raw dump: operation, source pair, destination pair
prettyPrint(p) ==
    [tag |-> "RAW", op |-> "Request", srcHw |-> p.hw, srcIp |-> p.ip,
     dstHw |-> Nil, dstIp |-> Nil]

VARIABLES
    status,     \* NewLogger's outcome: "none" (not called), "ready" (a Logger),
                \* "config_error", "open_error" (an error and no Logger)
    dest,       \* NewLogger's dest argument
    mode,       \* NewLogger's mode argument, Logger.mode
    logFile,    \* the log file: "none" (never opened), "open"
    writers,    \* the writers behind Logger.logger
    arptable,   \* Logger.arptable
    pkt,        \* the announcement of the last Log call
    before,     \* arptable as the last Log call found it
    lines,      \* the lines the last Log call printed, in order
    written,    \* those of them the sink accepted
    twin,       \* a second Logger fed the same announcements (SpecPair)
    hist,       \* the latest valid announcement of each IP and of each
                \* hardware address (SpecHist)
    pc,         \* where main is: "none" (no program: the package alone),
                \* "start", "open_interface", "select" (in processPackets),
                \* "returned" (from processPackets), "exit"
    flagDest,   \* getDest(): the destination the flags ask for
    genFailed,  \* genFilename returned an error
    handle,     \* the capture handle: "none", "open", "closed"
    cancelled,  \* ctx is cancelled (the interrupt signal came)
    chan,       \* the packets waiting in the capture channel, oldest first
    closeCalls, \* the calls of logger.Close
    arrived,    \* every packet the capture put in the channel, in order
    taken,      \* every packet processPackets took from the channel, in order
    handed,     \* the ARP layer of every Log call of processPackets, in order
    printed     \* every line those calls printed, each with its call's number

\* the Logger and the record of its last call
loggervars == <<status, dest, mode, logFile, writers, arptable, pkt, before,
                lines, written>>
\* the program around it
progvars == <<pc, flagDest, genFailed, handle, cancelled, chan, closeCalls>>
\* what it has done so far
tracevars == <<arrived, taken, handed, printed>>

vars == <<loggervars, twin, hist, progvars, tracevars>>

(***************************************************************************)
(* Logger.Log.  Each operator gives the table Log leaves and the lines it  *)
(* prints, in order, as [table |-> ..., lines |-> ...].  k is the key the  *)
(* scan of the table stops at (Nil: no entry holds the sender's hardware   *)
(* address).                                                               *)
(***************************************************************************)
\* Faulty variant of LogKnownIP: the table is written before the line is
\* printed, so the line shows the new address as the previous one.
LogKnownIP_PrintAfterSet(table, m, ip, hw, k) ==
    IF table[ip] = hw
    THEN [table |-> table, lines |-> <<>>]
    ELSE LET scanned == IF k # Nil THEN Delete(table, k) ELSE table
             stored == Set(scanned, ip, hw)
         IN  [table |-> stored,
              lines |-> IF HasFlag(m, LogNewPairs)
                        THEN <<ChangeLine(ip, Get(stored, ip), ip, hw)>>
                        ELSE <<>>]

\* Faulty variant of LogKnownIP: no early return for an exact repeat.
LogKnownIP_NoRepeatCheck(table, m, ip, hw, k) ==
    LET scanned == IF k # Nil /\ k # ip THEN Delete(table, k) ELSE table
    IN  [table |-> Set(scanned, ip, hw),
         lines |-> IF HasFlag(m, LogNewPairs)
                   THEN <<ChangeLine(ip, Get(scanned, ip), ip, hw)>>
                   ELSE <<>>]

\* Faulty variant of LogKnownIP: the table is not scanned for the hardware
\* address, so its entry under another IP stays.
LogKnownIP_NoScan(table, m, ip, hw, k) ==
    IF table[ip] = hw
    THEN [table |-> table, lines |-> <<>>]
    ELSE [table |-> Set(table, ip, hw),
          lines |-> IF HasFlag(m, LogNewPairs)
                    THEN <<ChangeLine(ip, Get(table, ip), ip, hw)>>
                    ELSE <<>>]

\* the sender IP is a key of the table
LogKnownIP(table, m, ip, hw, k) ==
    IF table[ip] = hw
    THEN \* already in the table: return
         [table |-> table, lines |-> <<>>]
    ELSE LET scanned == IF k # Nil THEN Delete(table, k) ELSE table
         IN  [table |-> Set(scanned, ip, hw),
              lines |-> IF HasFlag(m, LogNewPairs)
                        THEN <<ChangeLine(ip, Get(scanned, ip), ip, hw)>>
                        ELSE <<>>]

\* Faulty variant of LogMigrated: the entry under the old IP stays.
LogMigrated_KeepOld(table, m, ip, hw, k) ==
    [table |-> Set(table, ip, hw),
     lines |-> IF HasFlag(m, LogNewPairs)
               THEN <<ChangeLine(k, hw, ip, hw)>>
               ELSE <<>>]

\* Faulty variant of LogMigrated: the migration is not reported.
LogMigrated_Silent(table, m, ip, hw, k) ==
    [table |-> Set(Delete(table, k), ip, hw), lines |-> <<>>]

\* the sender IP is no key, and the scan found the hardware address under k
LogMigrated(table, m, ip, hw, k) ==
    [table |-> Set(Delete(table, k), ip, hw),
     lines |-> IF HasFlag(m, LogNewPairs)
               THEN <<ChangeLine(k, hw, ip, hw)>>
               ELSE <<>>]

\* Faulty variant of LogNewPair: the line is printed and the pair is not
\* stored.
LogNewPair_NoStore(table, m, ip, hw) ==
    [table |-> table,
     lines |-> IF HasFlag(m, LogNewPairs) THEN <<NewLine(ip, hw)>> ELSE <<>>]

\* Faulty variant of LogNewPair: the pair is stored inside the mode test.
LogNewPair_StoreOnlyWhenReporting(table, m, ip, hw) ==
    IF HasFlag(m, LogNewPairs)
    THEN [table |-> Set(table, ip, hw), lines |-> <<NewLine(ip, hw)>>]
    ELSE [table |-> table, lines |-> <<>>]

\* the sender IP is no key, and no entry holds the hardware address
LogNewPair(table, m, ip, hw) ==
    [table |-> Set(table, ip, hw),
     lines |-> IF HasFlag(m, LogNewPairs) THEN <<NewLine(ip, hw)>> ELSE <<>>]

\* Faulty variant of Classify: the classification is skipped when changes
\* are not reported.
Classify_OnlyWhenReporting(table, m, ip, hw, k) ==
    IF ~HasFlag(m, LogNewPairs) THEN [table |-> table, lines |-> <<>>]
    ELSE IF ip \in DOMAIN table THEN LogKnownIP(table, m, ip, hw, k)
    ELSE IF k # Nil THEN LogMigrated(table, m, ip, hw, k)
    ELSE LogNewPair(table, m, ip, hw)

\* the classification of a valid announcement against the table
Classify(table, m, ip, hw, k) ==
    IF ip \in DOMAIN table THEN LogKnownIP(table, m, ip, hw, k)
    ELSE IF k # Nil THEN LogMigrated(table, m, ip, hw, k)
    ELSE LogNewPair(table, m, ip, hw)

\* the raw dump of a valid announcement
DumpLines(m, p) == IF HasFlag(m, LogAllPackets) THEN <<prettyPrint(p)>> ELSE <<>>

\* Faulty variant of LogCall: the protocol-address size is not checked.
LogCall_NoProtCheck(table, m, p, k) ==
    IF p.hwSize # HwLen
    THEN [table |-> table, lines |-> <<WarningLine("MAC", p.hwSize)>>]
    ELSE LET c == Classify(table, m, p.ip, p.hw, k)
         IN  [table |-> c.table, lines |-> DumpLines(m, p) \o c.lines]

\* Faulty variant of LogCall: the raw dump comes after the classification.
LogCall_DumpLast(table, m, p, k) ==
    IF p.hwSize # HwLen
    THEN [table |-> table, lines |-> <<WarningLine("MAC", p.hwSize)>>]
    ELSE IF p.protSize # ProtLen
    THEN [table |-> table, lines |-> <<WarningLine("IPv4", p.protSize)>>]
    ELSE LET c == Classify(table, m, p.ip, p.hw, k)
         IN  [table |-> c.table, lines |-> c.lines \o DumpLines(m, p)]

\* the whole call
LogCall(table, m, p, k) ==
    IF p.hwSize # HwLen
    THEN [table |-> table, lines |-> <<WarningLine("MAC", p.hwSize)>>]
    ELSE IF p.protSize # ProtLen
    THEN [table |-> table, lines |-> <<WarningLine("IPv4", p.protSize)>>]
    ELSE LET c == Classify(table, m, p.ip, p.hw, k)
         IN  [table |-> c.table, lines |-> DumpLines(m, p) \o c.lines]

(***************************************************************************)
(* The sink.  log.Logger.Printf and Println hand each line to the          *)
(* io.MultiWriter and drop the error it returns: a failed write loses the  *)
(* line and nothing else.  fails is the set of positions, among the lines  *)
(* of one call, whose write fails.                                         *)
(***************************************************************************)
Delivered(ls, fails) ==
    LET F[i \in 0..Len(ls)] ==
            IF i = 0 THEN <<>>
            ELSE IF i \in fails THEN F[i - 1] ELSE Append(F[i - 1], ls[i])
    IN  IF fails = {} THEN ls ELSE F[Len(ls)]

\* Faulty variant of LogOutcome: Log returns at the first write that fails,
\* before the table is written.
LogOutcome_AbortOnWriteError(table, m, p, k, fails) ==
    LET r == LogCall(table, m, p, k)
        failed == {i \in DOMAIN r.lines : i \in fails}
        first == CHOOSE i \in failed : \A j \in failed : i <= j
    IN  IF failed = {}
        THEN [table |-> r.table, lines |-> r.lines, written |-> r.lines]
        ELSE [table |-> table, lines |-> SubSeq(r.lines, 1, first),
              written |-> SubSeq(r.lines, 1, first - 1)]

\* One call of Log on the Logger (table, m) whose sink fails the writes at
\* fails: the table and the lines of LogCall, and the lines that reached
\* the sink.
LogOutcome(table, m, p, k, fails) ==
    LET r == LogCall(table, m, p, k)
    IN  [table |-> r.table, lines |-> r.lines,
         written |-> Delivered(r.lines, fails)]

\* the write patterns a sink over the writers ws can show for the lines ls:
\* a MultiWriter over no writer cannot fail
FailPatterns(ws, ls) == IF ws = {} THEN {{}} ELSE SUBSET (DOMAIN ls)

(***************************************************************************)
(* NewLogger(dest, mode, filename).  openOk: os.OpenFile succeeds.         *)
(***************************************************************************)
NewLoggerResult(d, m, openOk) ==
    IF d = 0 \/ m = 0
    THEN [status |-> "config_error", logFile |-> "none", writers |-> {}]
    ELSE IF HasFlag(d, Print2Log) /\ ~openOk
    THEN [status |-> "open_error", logFile |-> "none", writers |-> {}]
    ELSE [status |-> "ready",
          logFile |-> IF HasFlag(d, Print2Log) THEN "open" ELSE "none",
          writers |-> (IF HasFlag(d, Print2Log) THEN {"file"} ELSE {})
                      \cup (IF HasFlag(d, Print2Console) THEN {"stdout"} ELSE {})]

NewLogger(d, m, openOk) ==
    /\ status = "none"
    /\ LET r == NewLoggerResult(d, m, openOk)
       IN  /\ status' = r.status
           /\ logFile' = r.logFile
           /\ writers' = r.writers
    /\ dest' = d
    /\ mode' = m
    /\ arptable' = EmptyTable
    /\ UNCHANGED <<pkt, before, lines, written, twin>>

(***************************************************************************)
(* One call l.Log(layer) on the Logger NewLogger returned.  (\E x \in {e}  *)
(* names the value of e.)                                                  *)
(***************************************************************************)
Log(p) ==
    /\ status = "ready"
    /\ \E k \in ScanHits(arptable, p.hw) :
         \E c \in {LogCall(arptable, mode, p, k)} :
            \E fails \in FailPatterns(writers, c.lines) :
               \E r \in {LogOutcome(arptable, mode, p, k, fails)} :
                  /\ arptable' = r.table
                  /\ lines' = r.lines
                  /\ written' = r.written
    /\ pkt' = p
    /\ before' = arptable
    /\ UNCHANGED <<status, dest, mode, logFile, writers>>

\* no second Logger
NoTwin == [mode |-> 0, arptable |-> EmptyTable, lines |-> <<>>, written |-> <<>>]

\* no history kept
NoHist == [byIp |-> [i \in IPs |-> Nil], byHw |-> [h \in HWs |-> Nil]]

\* no program around the Logger
NoProgram ==
    /\ pc = "none"
    /\ flagDest = 0
    /\ genFailed = FALSE
    /\ handle = "none"
    /\ cancelled = FALSE
    /\ chan = <<>>
    /\ closeCalls = 0
    /\ arrived = <<>>
    /\ taken = <<>>
    /\ handed = <<>>
    /\ printed = <<>>

\* NewLogger has not been called
LoggerUnbuilt ==
    /\ status = "none"
    /\ dest = 0
    /\ mode = 0
    /\ logFile = "none"
    /\ writers = {}
    /\ arptable = EmptyTable
    /\ pkt = NoPacket
    /\ before = EmptyTable
    /\ lines = <<>>
    /\ written = <<>>

Init ==
    /\ LoggerUnbuilt
    /\ twin = NoTwin
    /\ hist = NoHist
    /\ NoProgram

Next ==
    \/ \E d \in Args, m \in Args, openOk \in BOOLEAN :
          NewLogger(d, m, openOk) /\ UNCHANGED <<hist, progvars, tracevars>>
    \/ \E p \in Packets :
          Log(p) /\ UNCHANGED <<twin, hist, progvars, tracevars>>

Spec == Init /\ [][Next]_vars

(***************************************************************************)
(* Two Loggers fed the same announcements: the Logger above, whose sink    *)
(* may fail any write, and a twin with a mode of its own and a sink that   *)
(* never fails.  Each call scans its own table in its own order.           *)
(***************************************************************************)
\* the modes that select a logging mode
Modes == {LogAllPackets, LogNewPairs, LogAllPackets + LogNewPairs}

TwinLog(p) ==
    \E k \in ScanHits(twin.arptable, p.hw) :
        \E r \in {LogOutcome(twin.arptable, twin.mode, p, k, {})} :
            twin' = [mode |-> twin.mode, arptable |-> r.table,
                     lines |-> r.lines, written |-> r.written]

LogBoth(p) == Log(p) /\ TwinLog(p)

InitPair ==
    /\ \E m \in Modes :
         LET r == NewLoggerResult(Print2Console, m, TRUE)
         IN  /\ status = r.status
             /\ logFile = r.logFile
             /\ writers = r.writers
             /\ mode = m
    /\ dest = Print2Console
    /\ arptable = EmptyTable
    /\ pkt = NoPacket
    /\ before = EmptyTable
    /\ lines = <<>>
    /\ written = <<>>
    /\ \E tm \in Modes :
         twin = [mode |-> tm, arptable |-> EmptyTable, lines |-> <<>>,
                 written |-> <<>>]
    /\ hist = NoHist
    /\ NoProgram

NextPair ==
    \E p \in Packets : LogBoth(p) /\ UNCHANGED <<hist, progvars, tracevars>>

SpecPair == InitPair /\ [][NextPair]_vars

(***************************************************************************)
(* One Logger fed valid announcements, with the latest valid announcement  *)
(* of each IP and of each hardware address kept beside it.                 *)
(***************************************************************************)
\* the announcement passes the size checks of Log
IsValid(p) == p.hwSize = HwLen /\ p.protSize = ProtLen

LogTracked(p) ==
    /\ IsValid(p)
    /\ Log(p)
    /\ hist' = [byIp |-> [hist.byIp EXCEPT ![p.ip] = p.hw],
                byHw |-> [hist.byHw EXCEPT ![p.hw] = p.ip]]
    /\ UNCHANGED <<twin, progvars, tracevars>>

InitHist ==
    /\ \E r \in {NewLoggerResult(Print2Console, LogNewPairs, TRUE)} :
         /\ status = r.status
         /\ logFile = r.logFile
         /\ writers = r.writers
    /\ mode = LogNewPairs
    /\ dest = Print2Console
    /\ arptable = EmptyTable
    /\ pkt = NoPacket
    /\ before = EmptyTable
    /\ lines = <<>>
    /\ written = <<>>
    /\ twin = NoTwin
    /\ hist = NoHist
    /\ NoProgram

NextHist == \E p \in Packets : LogTracked(p)

SpecHist == InitHist /\ [][NextHist]_vars

(***************************************************************************)
(* The program: main and processPackets around one Logger.                 *)
(***************************************************************************)
\* A packet of the capture channel: one with an ARP layer, or one without.
ARPFrame(p) == [arp |-> TRUE, layer |-> p]
OtherFrame == [arp |-> FALSE, layer |-> NoPacket]

\* The packets the capture delivers here: one without an ARP layer, three
\* valid announcements over two IPs and two hardware addresses, and one
\* with a 5-byte hardware address.
Frames ==
    {OtherFrame,
     ARPFrame([hwSize |-> 6, protSize |-> 4, ip |-> 1, hw |-> 1]),
     ARPFrame([hwSize |-> 6, protSize |-> 4, ip |-> 2, hw |-> 1]),
     ARPFrame([hwSize |-> 6, protSize |-> 4, ip |-> 1, hw |-> 2]),
     ARPFrame([hwSize |-> 5, protSize |-> 4, ip |-> 1, hw |-> -1])}

\* Faulty variant of HasARPLayer: an ARP layer of the wrong sizes counts as
\* no ARP layer.
HasARPLayer_OnlyWellFormed(f) == f.arp /\ IsValid(f.layer)

\* packet.Layer(layers.LayerTypeARP) != nil
HasARPLayer(f) == f.arp

\* a | b
BitOr(a, b) == a + b - BitAnd(a, b)

\* parseFlags, for a command line that names an interface: an output and a
\* logging mode must be chosen
parseFlags(fLog, fConsole, fAll, fNew) == (fConsole \/ fLog) /\ (fAll \/ fNew)

getMode(fAll, fNew) ==
    BitOr(IF fAll THEN LogAllPackets ELSE 0, IF fNew THEN LogNewPairs ELSE 0)

getDest(fConsole, fLog) ==
    BitOr(IF fConsole THEN Print2Console ELSE 0, IF fLog THEN Print2Log ELSE 0)

\* getLogFilename(&dest): the file name, and dest as it leaves it.  genOk:
\* genFilename returns a path.
getLogFilename(d, genOk) ==
    IF ~HasFlag(d, Print2Log) THEN [dest |-> d, filename |-> ""]
    ELSE IF genOk THEN [dest |-> d, filename |-> "arplogger.log"]
    ELSE [dest |-> BitOr(d, Print2Console), filename |-> ""]

\* os.OpenFile(filename, os.O_CREATE|os.O_RDWR, 0666) succeeds: never for
\* the empty path, and for a path as the file system allows (openOk)
OpenFile(filename, openOk) == filename # "" /\ openOk

\* The io.Writer NewLogger gives log.New, which l.logger.Writer() returns:
\* the io.MultiWriter, whatever writers it is over.
LoggerWriter(ws) == [type |-> "io.multiWriter", over |-> ws]

\* Logger.Close: the log file after the call.  The file is synced and
\* closed when the Logger's writer is an *os.File; Close returns nil
\* otherwise.
LoggerClose(ws, file) ==
    IF LoggerWriter(ws).type = "os.File" THEN "closed" ELSE file

\* main, parseFlags returns false: return
MainUsage(fLog, fConsole, fAll, fNew) ==
    /\ pc = "start"
    /\ ~parseFlags(fLog, fConsole, fAll, fNew)
    /\ pc' = "exit"
    /\ UNCHANGED <<loggervars, twin, hist, flagDest, genFailed, handle,
                   cancelled, chan, closeCalls, tracevars>>

\* main up to NewLogger: the flags, getLogFilename, NewLogger; return when
\* NewLogger returns an error
MainNewLogger(fLog, fConsole, fAll, fNew, genOk, openOk) ==
    /\ pc = "start"
    /\ parseFlags(fLog, fConsole, fAll, fNew)
    /\ \E d \in {getDest(fConsole, fLog)} :
         \E g \in {getLogFilename(d, genOk)} :
            /\ NewLogger(g.dest, getMode(fAll, fNew), OpenFile(g.filename, openOk))
            /\ flagDest' = d
            /\ genFailed' = (HasFlag(d, Print2Log) /\ ~genOk)
    /\ pc' = IF status' = "ready" THEN "open_interface" ELSE "exit"
    /\ UNCHANGED <<hist, handle, cancelled, chan, closeCalls, tracevars>>

\* main, openInterface: on an error return, which runs the deferred
\* logger.Close; else the handle is open, the signal context is set up and
\* processPackets starts
MainOpenInterface(ok) ==
    /\ pc = "open_interface"
    /\ IF ok
       THEN /\ handle' = "open"
            /\ pc' = "select"
            /\ UNCHANGED <<logFile, closeCalls>>
       ELSE /\ pc' = "exit"
            /\ closeCalls' = closeCalls + 1
            /\ logFile' = LoggerClose(writers, logFile)
            /\ UNCHANGED handle
    /\ UNCHANGED <<status, dest, mode, writers, arptable, pkt, before, lines,
                   written, twin, hist, flagDest, genFailed, cancelled, chan,
                   tracevars>>

\* the packet source puts a packet in the channel.  track: the run records
\* its packets.
Arrive(f, track) ==
    /\ pc \in {"select", "returned"}
    /\ handle = "open"
    /\ Len(chan) < MaxQueue
    /\ track => Len(arrived) < MaxPackets
    /\ chan' = Append(chan, f)
    /\ arrived' = IF track THEN Append(arrived, f) ELSE arrived
    /\ UNCHANGED <<loggervars, twin, hist, pc, flagDest, genFailed, handle,
                   cancelled, closeCalls, taken, handed, printed>>

\* processPackets, case packet = <-in: the packet is skipped when it has no
\* ARP layer, and handed to logger.Log otherwise
SelectPacket(track) ==
    /\ pc = "select"
    /\ chan # <<>>
    /\ chan' = Tail(chan)
    /\ taken' = IF track THEN Append(taken, Head(chan)) ELSE taken
    /\ IF HasARPLayer(Head(chan))
       THEN /\ Log(Head(chan).layer)
            /\ handed' = IF track THEN Append(handed, Head(chan).layer)
                          ELSE handed
            /\ printed' = IF track
                           THEN printed \o
                                [i \in DOMAIN lines' |->
                                    [call |-> Len(handed) + 1, line |-> lines'[i]]]
                           ELSE printed
       ELSE UNCHANGED <<loggervars, handed, printed>>
    /\ UNCHANGED <<twin, hist, pc, flagDest, genFailed, handle, cancelled,
                   closeCalls, arrived>>

\* Faulty variant of SelectDone: the cancellation is looked at only when no
\* packet waits.
SelectDone_OnlyWhenIdle ==
    /\ pc = "select"
    /\ cancelled
    /\ chan = <<>>
    /\ pc' = "returned"
    /\ UNCHANGED <<loggervars, twin, hist, flagDest, genFailed, handle,
                   cancelled, chan, closeCalls, tracevars>>

\* processPackets, case <-ctx.Done(): break read, and return
SelectDone ==
    /\ pc = "select"
    /\ cancelled
    /\ pc' = "returned"
    /\ UNCHANGED <<loggervars, twin, hist, flagDest, genFailed, handle,
                   cancelled, chan, closeCalls, tracevars>>

\* the interrupt signal cancels the context
Interrupt ==
    /\ pc = "select"
    /\ ~cancelled
    /\ cancelled' = TRUE
    /\ UNCHANGED <<loggervars, twin, hist, pc, flagDest, genFailed, handle,
                   chan, closeCalls, tracevars>>

\* main after processPackets: the deferred stop(), handle.Close() and
\* logger.Close()
MainDefers ==
    /\ pc = "returned"
    /\ handle' = "closed"
    /\ closeCalls' = closeCalls + 1
    /\ logFile' = LoggerClose(writers, logFile)
    /\ pc' = "exit"
    /\ UNCHANGED <<status, dest, mode, writers, arptable, pkt, before, lines,
                   written, twin, hist, flagDest, genFailed, cancelled, chan,
                   tracevars>>

InitMain ==
    /\ LoggerUnbuilt
    /\ twin = NoTwin
    /\ hist = NoHist
    /\ pc = "start"
    /\ flagDest = 0
    /\ genFailed = FALSE
    /\ handle = "none"
    /\ cancelled = FALSE
    /\ chan = <<>>
    /\ closeCalls = 0
    /\ arrived = <<>>
    /\ taken = <<>>
    /\ handed = <<>>
    /\ printed = <<>>

\* the steps of main before processPackets
MainSetup ==
    \/ \E fLog \in BOOLEAN, fConsole \in BOOLEAN, fAll \in BOOLEAN,
          fNew \in BOOLEAN :
          MainUsage(fLog, fConsole, fAll, fNew)
    \/ \E fLog \in BOOLEAN, fConsole \in BOOLEAN, fAll \in BOOLEAN,
          fNew \in BOOLEAN, genOk \in BOOLEAN, openOk \in BOOLEAN :
          MainNewLogger(fLog, fConsole, fAll, fNew, genOk, openOk)
    \/ \E ok \in BOOLEAN : MainOpenInterface(ok)

\* a run of at most MaxPackets packets, all recorded
NextMain ==
    \/ MainSetup
    \/ \E f \in Frames : Arrive(f, TRUE)
    \/ SelectPacket(TRUE)
    \/ SelectDone
    \/ Interrupt
    \/ MainDefers

SpecMain == InitMain /\ [][NextMain]_vars

\* a run in which packets keep arriving, none recorded
NextLive ==
    \/ MainSetup
    \/ \E f \in Frames : Arrive(f, FALSE)
    \/ SelectPacket(FALSE)
    \/ SelectDone
    \/ Interrupt
    \/ MainDefers

\* main runs on while it can, and a select whose ctx.Done() case is ready
\* takes that case in the end: Go chooses among the ready cases of a select
\* uniformly at random.
SpecLive ==
    InitMain /\ [][NextLive]_vars /\ WF_vars(SelectDone) /\ WF_vars(MainDefers)

(***************************************************************************)
(* Properties.  pkt, before, lines and written describe the last Log call, *)
(* so a state predicate over them speaks of every call of every run.       *)
(***************************************************************************)
\* a Log call has been made
Called == pkt # NoPacket

\* the announcement passes both size checks
WellFormed(p) == p.hwSize = 6 /\ p.protSize = 4

\* the mode bits, read off the number: bit 1 is "report binding changes"
\* (LogNewPairs), bit 0 is "dump all traffic" (LogAllPackets); for dest,
\* bit 0 is the log file and bit 1 the console
Bit0(x) == x % 2 = 1
Bit1(x) == (x \div 2) % 2 = 1
ReportsChanges(m) == Bit1(m)
DumpsAll(m) == Bit0(m)

\* the lines of ls that carry the tag
Tagged(ls, tag) == SelectSeq(ls, LAMBDA l : l.tag = tag)

\* the IPs under which the table t holds hw
HoldersOf(t, hw) == {i \in DOMAIN t : t[i] = hw}

\* t2 is t1 with ip -> hw written and the keys of gone removed, every other
\* entry as it was
Updated(t1, t2, gone, ip, hw) ==
    /\ DOMAIN t2 = ((DOMAIN t1) \ gone) \cup {ip}
    /\ t2[ip] = hw
    /\ \A i \in (DOMAIN t2) \ {ip} : t2[i] = t1[i]

\* C1: no self-conflict: the binding table never maps two different IPs to
\* the same hardware address, whatever announcements (valid or malformed)
\* Log has processed, in any mode.
C1_NoSelfConflict ==
    \A i \in DOMAIN arptable : \A j \in DOMAIN arptable :
        arptable[i] = arptable[j] => i = j

\* a valid announcement whose hardware address was held under another IP
\* has been processed, and the table holds two entries
C1_Witness ==
    /\ Called /\ WellFormed(pkt)
    /\ HoldersOf(before, pkt.hw) \ {pkt.ip} # {}
    /\ Cardinality(DOMAIN before) >= 2
    /\ Cardinality(DOMAIN arptable) >= 2

\* C2: new-binding detection: a valid announcement (ip, hw) processed on a
\* table with neither the key ip nor a value hw leaves the old table plus
\* ip -> hw (from the empty table exactly {ip: hw}) and, when changes are
\* reported, prints exactly one NEW MAPPING line, for ip <-> hw, and no
\* CHANGE MAPPING line.
C2_NewBinding ==
    (/\ Called /\ WellFormed(pkt)
     /\ pkt.ip \notin DOMAIN before
     /\ HoldersOf(before, pkt.hw) = {})
    => /\ Updated(before, arptable, {}, pkt.ip, pkt.hw)
       /\ DOMAIN arptable = (DOMAIN before) \cup {pkt.ip}
       /\ (before = EmptyTable => arptable = (pkt.ip :> pkt.hw))
       /\ ReportsChanges(mode) =>
            /\ Tagged(lines, "NEW MAPPING") = <<NewLine(pkt.ip, pkt.hw)>>
            /\ Tagged(lines, "CHANGE MAPPING") = <<>>

C2_Witness ==
    /\ Called /\ WellFormed(pkt)
    /\ pkt.ip \notin DOMAIN before
    /\ HoldersOf(before, pkt.hw) = {}
    /\ before # EmptyTable
    /\ ReportsChanges(mode)
    /\ Len(Tagged(lines, "NEW MAPPING")) = 1

\* C3: changed-binding detection: a valid announcement (ip, hw2) processed
\* on a table with ip -> hw1, hw1 # hw2, leaves ip -> hw2 and, when changes
\* are reported, prints exactly one CHANGE MAPPING line, with previous
\* binding ip <-> hw1 and new binding ip <-> hw2, and no NEW MAPPING line.
C3_ChangedBinding ==
    (/\ Called /\ WellFormed(pkt)
     /\ pkt.ip \in DOMAIN before
     /\ before[pkt.ip] # pkt.hw)
    => /\ pkt.ip \in DOMAIN arptable
       /\ arptable[pkt.ip] = pkt.hw
       /\ ReportsChanges(mode) =>
            /\ Tagged(lines, "CHANGE MAPPING") =
                 <<ChangeLine(pkt.ip, before[pkt.ip], pkt.ip, pkt.hw)>>
            /\ Tagged(lines, "NEW MAPPING") = <<>>

C3_Witness ==
    /\ Called /\ WellFormed(pkt)
    /\ pkt.ip \in DOMAIN before
    /\ before[pkt.ip] # pkt.hw
    /\ ReportsChanges(mode)
    /\ Len(Tagged(lines, "CHANGE MAPPING")) = 1

\* C4: migration: a valid announcement (ip, hw) processed on a table without
\* the key ip and with ip2 -> hw removes the ip2 entry and writes ip -> hw
\* in the same call, leaves every other entry as it was and, when changes
\* are reported, prints exactly one CHANGE MAPPING line, with previous
\* binding ip2 <-> hw and new binding ip <-> hw.
C4_Migration ==
    (/\ Called /\ WellFormed(pkt)
     /\ pkt.ip \notin DOMAIN before)
    => \A ip2 \in HoldersOf(before, pkt.hw) :
          /\ Updated(before, arptable, {ip2}, pkt.ip, pkt.hw)
          /\ ip2 \notin DOMAIN arptable
          /\ ReportsChanges(mode) =>
               /\ Tagged(lines, "CHANGE MAPPING") =
                    <<ChangeLine(ip2, pkt.hw, pkt.ip, pkt.hw)>>
               /\ Tagged(lines, "NEW MAPPING") = <<>>

\* a migration on a table that holds another entry too
C4_Witness ==
    /\ Called /\ WellFormed(pkt)
    /\ pkt.ip \notin DOMAIN before
    /\ HoldersOf(before, pkt.hw) # {}
    /\ Cardinality(DOMAIN before) >= 2
    /\ ReportsChanges(mode)
    /\ Cardinality(DOMAIN arptable) >= 2

\* C5: idempotence of repeats: a valid announcement (ip, hw) processed on a
\* table that already maps ip -> hw leaves the table as it was and prints
\* no NEW MAPPING or CHANGE MAPPING line, in every mode; and every valid
\* announcement (ip, hw) leaves ip -> hw, so that an immediate repeat of it
\* is such an exact repeat.
C5_RepeatIsNoOp ==
    (Called /\ WellFormed(pkt))
    => /\ pkt.ip \in DOMAIN arptable
       /\ arptable[pkt.ip] = pkt.hw
       /\ (pkt.ip \in DOMAIN before /\ before[pkt.ip] = pkt.hw)
          => /\ arptable = before
             /\ Tagged(lines, "NEW MAPPING") = <<>>
             /\ Tagged(lines, "CHANGE MAPPING") = <<>>

\* an exact repeat processed with changes reported, on a table of two entries
C5_Witness ==
    /\ Called /\ WellFormed(pkt)
    /\ pkt.ip \in DOMAIN before
    /\ before[pkt.ip] = pkt.hw
    /\ ReportsChanges(mode)
    /\ Cardinality(DOMAIN before) >= 2

\* C6: malformed rejection: an announcement whose hardware-address size is
\* not 6 or whose protocol-address size is not 4 makes Log print exactly one
\* WARNING line and nothing else, in every mode, and leaves the table as it
\* was; the Logger then takes every next announcement.
C6_MalformedRejected ==
    (Called /\ ~WellFormed(pkt))
    => /\ Len(lines) = 1
       /\ lines[1].tag = "WARNING"
       /\ arptable = before
       /\ status = "ready"
       /\ \A p \in Packets : ENABLED Log(p)

\* a malformed announcement carrying an address the table did not hold,
\* processed with both modes on and a table of two entries
C6_Witness ==
    /\ Called /\ ~WellFormed(pkt)
    /\ DumpsAll(mode) /\ ReportsChanges(mode)
    /\ Cardinality(DOMAIN before) >= 2
    /\ \/ pkt.ip \in IPs \ DOMAIN before
       \/ pkt.hw \in HWs /\ HoldersOf(before, pkt.hw) = {}

\* what the update algorithm leaves of a table t without self-conflict for
\* a valid announcement (ip, hw): hw under ip and under no other key, every
\* other entry kept
AlgorithmTable(t, ip, hw) ==
    [i \in ((DOMAIN t) \ HoldersOf(t, hw)) \cup {ip} |->
        IF i = ip THEN hw ELSE t[i]]

\* C7: dump-all independence: with dump-all on and report-changes off, a
\* valid announcement prints exactly one raw-dump line and no NEW MAPPING or
\* CHANGE MAPPING line, and the table is updated as the algorithm updates
\* it with report-changes on.
C7_DumpAllIndependence ==
    (/\ Called /\ WellFormed(pkt)
     /\ DumpsAll(mode) /\ ~ReportsChanges(mode))
    => /\ lines = <<prettyPrint(pkt)>>
       /\ Tagged(lines, "NEW MAPPING") = <<>>
       /\ Tagged(lines, "CHANGE MAPPING") = <<>>
       /\ arptable = AlgorithmTable(before, pkt.ip, pkt.hw)
       /\ \E k \in ScanHits(before, pkt.hw) :
             arptable = LogCall(before, LogNewPairs, pkt, k).table

\* a migration processed in dump-all-only mode
C7_Witness ==
    /\ Called /\ WellFormed(pkt)
    /\ DumpsAll(mode) /\ ~ReportsChanges(mode)
    /\ HoldersOf(before, pkt.hw) \ {pkt.ip} # {}
    /\ arptable # before

\* C8: construction-time misconfiguration: for every (dest, mode),
\* NewLogger returns a configuration error and no Logger whenever dest
\* selects neither the log file nor the console or mode selects neither
\* logging mode, and it does so before any log file is opened.
C8_ConfigErrorWhenNothingSelected ==
    (/\ status # "none"
     /\ \/ ~(Bit0(dest) \/ Bit1(dest))
        \/ ~(Bit0(mode) \/ Bit1(mode)))
    => /\ status = "config_error"
       /\ logFile = "none"

\* C9: the table does not depend on the mode: two Loggers with different
\* mode flags, fed the same announcements, hold the same table after each
\* announcement.
C9_TableIndependentOfMode ==
    mode # twin.mode => arptable = twin.arptable

\* two Loggers in different modes have printed different lines for an
\* announcement that changed a table of two entries
C9_Witness ==
    /\ mode # twin.mode
    /\ Called /\ WellFormed(pkt)
    /\ lines # twin.lines
    /\ arptable # before
    /\ Cardinality(DOMAIN before) >= 2

\* C10: sink failure isolation: whatever writes fail, the table after each
\* call is the table of a Logger whose sink never fails, and the call runs
\* to its end: it prints every line the other prints, those after a failed
\* write too, and a valid announcement (ip, hw) leaves ip -> hw.
C10_SinkFailureIsolation ==
    mode = twin.mode
    => /\ arptable = twin.arptable
       /\ lines = twin.lines
       /\ twin.written = twin.lines
       /\ (Called /\ WellFormed(pkt))
          => /\ pkt.ip \in DOMAIN arptable
             /\ arptable[pkt.ip] = pkt.hw

\* the first of two writes failed and the second did not, in a call that
\* changed the table
C10_Witness ==
    /\ mode = twin.mode
    /\ Called /\ WellFormed(pkt)
    /\ Len(lines) = 2
    /\ written = <<lines[2]>>
    /\ arptable # before

\* C12: stale-entry removal on a changed binding: a valid announcement
\* (ip, hw) processed on a table with ip -> hw1 (hw1 # hw) and ip2 -> hw
\* (ip2 # ip) removes the ip2 entry and writes ip -> hw in the same call, so
\* that the table holds hw under ip only and every other entry is as it
\* was; the CHANGE MAPPING line, when changes are reported, shows hw1 as the
\* previous address of ip.
C12_StaleEntryRemoved ==
    (/\ Called /\ WellFormed(pkt)
     /\ pkt.ip \in DOMAIN before
     /\ before[pkt.ip] # pkt.hw)
    => /\ HoldersOf(arptable, pkt.hw) = {pkt.ip}
       /\ \A ip2 \in HoldersOf(before, pkt.hw) :
             /\ ip2 # pkt.ip
             /\ ip2 \notin DOMAIN arptable
             /\ Updated(before, arptable, {ip2}, pkt.ip, pkt.hw)
       /\ ReportsChanges(mode) =>
             Tagged(lines, "CHANGE MAPPING") =
                 <<ChangeLine(pkt.ip, before[pkt.ip], pkt.ip, pkt.hw)>>

\* the announced hardware address was held under another IP while the
\* announced IP held another address, and the change has been reported
C12_Witness ==
    /\ Called /\ WellFormed(pkt)
    /\ pkt.ip \in DOMAIN before
    /\ before[pkt.ip] # pkt.hw
    /\ HoldersOf(before, pkt.hw) # {}
    /\ ReportsChanges(mode)
    /\ Len(lines) >= 1

\* the NEW MAPPING and CHANGE MAPPING lines of the last call
EventLines == Tagged(lines, "NEW MAPPING") \o Tagged(lines, "CHANGE MAPPING")

\* C15: event line if and only if the table changes: with changes reported,
\* a valid announcement prints exactly one NEW MAPPING or CHANGE MAPPING
\* line (never both, never more) when the call changes the table, and none
\* when it leaves the table as it was.
C15_EventLineIffTableChanges ==
    (Called /\ WellFormed(pkt) /\ ReportsChanges(mode))
    => /\ arptable # before => Len(EventLines) = 1
       /\ arptable = before => Len(EventLines) = 0

\* a call that changed a table of two entries and printed its one line
C15_Witness ==
    /\ Called /\ WellFormed(pkt) /\ ReportsChanges(mode)
    /\ arptable # before
    /\ Cardinality(DOMAIN before) >= 2
    /\ Len(EventLines) = 1

\* C17: the table is the latest-announcement view: after any sequence of
\* valid announcements the table holds ip -> hw exactly when (ip, hw) is the
\* latest valid announcement with sender IP ip and also the latest with
\* sender hardware address hw; right after a valid announcement (ip, hw)
\* the table maps ip -> hw.
C17_TableIsLatestView ==
    /\ \A ip \in IPs : \A hw \in HWs :
          (ip \in DOMAIN arptable /\ arptable[ip] = hw)
          <=> (hist.byIp[ip] = hw /\ hist.byHw[hw] = ip)
    /\ DOMAIN arptable \subseteq IPs
    /\ Called => (pkt.ip \in DOMAIN arptable /\ arptable[pkt.ip] = pkt.hw)

\* an IP has announced an address that has since moved to another IP, and
\* an address has been announced by an IP that has since changed address
C17_Witness ==
    /\ Called
    /\ \E ip \in IPs : hist.byIp[ip] # Nil /\ ip \notin DOMAIN arptable
    /\ \E hw \in HWs : hist.byHw[hw] # Nil /\ HoldersOf(arptable, hw) = {}
    /\ arptable # EmptyTable

(***************************************************************************)
(* The program around the Logger.                                          *)
(***************************************************************************)
\* the ARP layers of the packets of s that have one, in the order of s
ARPLayersOf(s) ==
    LET arps == SelectSeq(s, LAMBDA f : f.arp)
    IN  [i \in 1..Len(arps) |-> arps[i].layer]

\* C11: arrival order, exactly once: the packets processPackets has taken
\* are the first packets that arrived, in that order; the announcements
\* handed to Log are exactly the ARP layers of the packets taken, each once
\* and in the order taken, the packets with no ARP layer left out; and the
\* Logger's most recent completed call is the call for the last of them, so
\* no packet is taken while a call is open.
C11_ArrivalOrderExactlyOnce ==
    /\ taken \o chan = arrived
    /\ Len(handed) = Len(ARPLayersOf(taken))
    /\ \A i \in 1..Len(handed) : handed[i] = ARPLayersOf(taken)[i]
    /\ handed # <<>> => pkt = handed[Len(handed)]
    /\ handed = <<>> => ~Called

\* three packets taken, one of them without an ARP layer and the other two
\* distinct announcements
C11_Witness ==
    /\ Len(taken) = 3
    /\ \E i \in 1..3 : ~taken[i].arp
    /\ Len(handed) = 2
    /\ handed[1] # handed[2]

\* C13: log-file fallback: when the log file is requested and genFilename
\* returns an error, NewLogger returns a Logger that writes to the console.
C13_LogFileFallback ==
    (genFailed /\ pc # "start")
    => /\ status = "ready"
       /\ "stdout" \in writers

\* the lines call n printed, in the order printed
LinesOfCall(n) ==
    LET own == SelectSeq(printed, LAMBDA e : e.call = n)
    IN  [i \in 1..Len(own) |-> own[i].line]

\* C14: raw-dump ordering: with dump-all enabled, the lines of every valid
\* announcement start with its raw-dump line and hold no other raw-dump
\* line, so the raw dump comes before the NEW MAPPING or CHANGE MAPPING
\* line, also for a repeat; and the lines come out call by call, the lines
\* of one announcement never between those of another.
C14_RawDumpFirst ==
    /\ \A i \in DOMAIN printed : \A j \in DOMAIN printed :
          i < j => printed[i].call <= printed[j].call
    /\ \A n \in 1..Len(handed) :
          (WellFormed(handed[n]) /\ DumpsAll(mode))
          => /\ Len(LinesOfCall(n)) >= 1
             /\ LinesOfCall(n)[1] = prettyPrint(handed[n])
             /\ \A i \in 2..Len(LinesOfCall(n)) : LinesOfCall(n)[i].tag # "RAW"

\* both modes on, a new binding and then its exact repeat: raw dump, NEW
\* MAPPING, raw dump
C14_Witness ==
    /\ DumpsAll(mode) /\ ReportsChanges(mode)
    /\ Len(handed) = 2
    /\ WellFormed(handed[1])
    /\ handed[1] = handed[2]
    /\ Len(printed) = 3
    /\ printed[2].line.tag = "NEW MAPPING"
    /\ printed[3].line.tag = "RAW"

\* C16: Close releases the log file: once Close has been called on a Logger
\* built with the file destination, the log file is closed.
C16_CloseReleasesLogFile ==
    (closeCalls > 0 /\ status = "ready" /\ Bit0(dest))
    => logFile = "closed"

\* C18: shutdown on interrupt: once the context is cancelled main comes to
\* its end with the capture handle closed and logger.Close called once,
\* whatever keeps arriving; once processPackets has returned no call to Log
\* is made; and in every state the table holds the whole update of the
\* Logger's last valid announcement, so no call is ever seen part-way.
C18_ShutdownOnInterrupt ==
    /\ cancelled ~> (pc = "exit" /\ handle = "closed" /\ closeCalls = 1)
    /\ [][(pc \in {"returned", "exit"})
            => (UNCHANGED <<arptable, pkt, before, lines, written>>)]_vars
    /\ []((Called /\ WellFormed(pkt)) => arptable[pkt.ip] = pkt.hw)

\* main has ended after an interrupt that came while a packet waited: the
\* packet is still in the channel, the handle is closed, Close was called
C18_Witness ==
    /\ pc = "exit"
    /\ cancelled
    /\ chan # <<>>
    /\ Called
    /\ handle = "closed"
    /\ closeCalls = 1

====
